---- MODULE Spec2Model ----
(***************************************************************************)
(* Receipt ledger extraction: the per-image Extractor (process_image) and  *)
(* the Reconciler (combine_json_outputs) of the three transport adapters   *)
(*   application_connect_RESTful_API.py  (REST, image URLs)                *)
(*   application_connect_api.py          (HTTP file upload)                *)
(*   application_connect_gRPC_API.py     (gRPC)                            *)
(***************************************************************************)
EXTENDS Integers, Sequences, FiniteSets, TLC

(***************************************************************************)
(* Bounds                                                                  *)
(***************************************************************************)
\* longest sequence of per-image records handed to combine_json_outputs
MaxRecords == 3
\* most images in one request
MaxImages == 2
\* longest reply text, in tokens, handed to the parse step
MaxReplyLen == 6

(***************************************************************************)
(* Python / JSON values.  Every value carries its type tag, so that the    *)
(* truthiness tests of the code can be computed as Python computes them.   *)
(***************************************************************************)
None == [t |-> "null"]
PyStr(s) == [t |-> "str", s |-> s]
PyInt(n) == [t |-> "int", n |-> n]
PyList(l) == [t |-> "list", l |-> l]
PyDict(d) == [t |-> "dict", d |-> d]

\* bool(v): Python truth value, as used by `if x` / `not x`
truthy(v) ==
    CASE v.t = "null" -> FALSE
      [] v.t = "str"  -> v.s # ""
      [] v.t = "int"  -> v.n # 0
      [] v.t = "list" -> v.l # <<>>
      [] v.t = "dict" -> DOMAIN v.d # {}

\* dict.get(key): None when the key is absent
get(data, key) == IF key \in DOMAIN data.d THEN data.d[key] ELSE None

\* dict.get(key, default)
get_default(data, key, default) ==
    IF key \in DOMAIN data.d THEN data.d[key] ELSE default

(***************************************************************************)
(* combine_json_outputs                                                    *)
(***************************************************************************)
\* outcome of a call: a returned value or a raised exception
Returned(v) == [raised |-> "no", value |-> v]
Raised(e) == [raised |-> e, value |-> None]

\* combined_data = {"date": None, "location": None, "items": [], "total_amount": None}
empty_combined ==
    [date |-> None, location |-> None, items |-> PyList(<<>>), total_amount |-> None]

\* if not combined_data["date"] and data.get("date"): combined_data["date"] = data["date"]
merge_date_last_wins(combined_data, data) ==
    IF truthy(get(data, "date"))
    THEN [combined_data EXCEPT !.date = data.d["date"]]
    ELSE combined_data

merge_date(combined_data, data) ==
    IF ~truthy(combined_data.date) /\ truthy(get(data, "date"))
    THEN [combined_data EXCEPT !.date = data.d["date"]]
    ELSE combined_data

\* if not combined_data["location"] and data.get("location"): ...
merge_location_last_wins(combined_data, data) ==
    IF truthy(get(data, "location"))
    THEN [combined_data EXCEPT !.location = data.d["location"]]
    ELSE combined_data

merge_location(combined_data, data) ==
    IF ~truthy(combined_data.location) /\ truthy(get(data, "location"))
    THEN [combined_data EXCEPT !.location = data.d["location"]]
    ELSE combined_data

\* combined_data["items"].extend(data.get("items", []))
merge_items_prepend(combined_data, data) ==
    [combined_data EXCEPT
        !.items = PyList(get_default(data, "items", PyList(<<>>)).l \o combined_data.items.l)]

merge_items(combined_data, data) ==
    [combined_data EXCEPT
        !.items = PyList(combined_data.items.l \o get_default(data, "items", PyList(<<>>)).l)]

\* if data.get("total_amount"): combined_data["total_amount"] = data["total_amount"]
merge_total_amount(combined_data, data) ==
    IF truthy(get(data, "total_amount"))
    THEN [combined_data EXCEPT !.total_amount = data.d["total_amount"]]
    ELSE combined_data

\* the body of `for data in json_outputs`
loop_body(combined_data, data) ==
    merge_total_amount(
        merge_items(merge_location(merge_date(combined_data, data), data), data),
        data)

\* the exception the loop body raises on `data`, "no" if none:
\*   data.get on a value that is not a dict -> AttributeError
\*   list.extend(None)                      -> TypeError
loop_body_raises(data) ==
    IF data.t # "dict" THEN "AttributeError"
    ELSE IF get_default(data, "items", PyList(<<>>)).t # "list" THEN "TypeError"
    ELSE "no"

RECURSIVE combine_loop(_, _, _)
combine_loop(combined_data, json_outputs, i) ==
    IF i > Len(json_outputs) THEN Returned(PyDict(combined_data))
    ELSE IF loop_body_raises(json_outputs[i]) # "no"
         THEN Raised(loop_body_raises(json_outputs[i]))
    ELSE combine_loop(loop_body(combined_data, json_outputs[i]), json_outputs, i + 1)

\* a call that has not been made
NotCalled == [raised |-> "not called", value |-> None]

\* line 197 builds combined_data anew at every call, whatever the outcome
\* `previous` of the call before; the variant keeps one dict for all calls
shared_combined_data(previous) ==
    IF previous.raised = "no" THEN previous.value.d ELSE empty_combined

new_combined_data(previous) == empty_combined

\* a call of combine_json_outputs made after a call with outcome `previous`
combine_call(previous, json_outputs) ==
    combine_loop(new_combined_data(previous), json_outputs, 1)

combine_json_outputs_drop_nulls(json_outputs) ==
    LET c == combine_call(NotCalled, json_outputs)
    IN IF c.raised # "no" THEN c
       ELSE Returned(PyDict([k \in {f \in DOMAIN c.value.d : c.value.d[f] # None}
                               |-> c.value.d[k]]))

combine_json_outputs(json_outputs) == combine_call(NotCalled, json_outputs)

\* combine_json_outputs of the file-upload adapter: the same statements
combine_json_outputs_upload(json_outputs) == combine_call(NotCalled, json_outputs)

\* a combination that walks the records from the last to the first
combine_json_outputs_reversed(json_outputs) ==
    combine_call(NotCalled,
                 [i \in 1..Len(json_outputs) |-> json_outputs[Len(json_outputs) + 1 - i]])

\* combine_json_outputs of the gRPC adapter: the same statements
combine_json_outputs_gRPC(json_outputs) == combine_call(NotCalled, json_outputs)

\* the combine_json_outputs that adapter a calls
combine_json_outputs_of(a, json_outputs) ==
    IF a = "rest" THEN combine_json_outputs(json_outputs)
    ELSE IF a = "upload" THEN combine_json_outputs_upload(json_outputs)
    ELSE combine_json_outputs_gRPC(json_outputs)

(***************************************************************************)
(* Per-image records the Reconciler is exercised on                        *)
(***************************************************************************)
Milk == [name |-> "milk", price |-> 2000]
Bread == [name |-> "bread", price |-> 1500]

DateValues == {None, PyStr(""), PyStr("2024-04-25"), PyStr("2024-05-01")}
LocationValues == {None, PyStr(""), PyStr("ABC mart"), PyStr("ABC mart 2")}
ItemsValues == {None, PyList(<<>>), PyList(<<Milk>>), PyList(<<Bread, Milk>>)}
TotalValues == {None, PyInt(0), PyInt(2000), PyInt(4500)}

\* records that carry one key only (every other key is absent)
OneKeyRecords ==
    {PyDict([k \in {"date"} |-> v]) : v \in DateValues}
    \cup {PyDict([k \in {"location"} |-> v]) : v \in LocationValues}
    \cup {PyDict([k \in {"items"} |-> v]) : v \in ItemsValues}
    \cup {PyDict([k \in {"total_amount"} |-> v]) : v \in TotalValues}

\* records that carry all four keys
FullRecords ==
    { PyDict([date |-> PyStr("2024-04-25"), location |-> PyStr("ABC mart"),
            items |-> PyList(<<Milk>>), total_amount |-> PyInt(2000)]),
      PyDict([date |-> None, location |-> PyStr("ABC mart 2"),
            items |-> PyList(<<Bread, Milk>>), total_amount |-> PyInt(4500)]),
      PyDict([date |-> PyStr("2024-05-01"), location |-> None,
            items |-> PyList(<<Milk>>), total_amount |-> PyInt(0)]),
      PyDict([date |-> PyStr(""), location |-> PyStr(""),
            items |-> PyList(<<>>), total_amount |-> None]) }

Records == {PyDict(<<>>)} \cup OneKeyRecords \cup FullRecords

RECURSIVE SeqsUpTo(_, _)
SeqsUpTo(S, n) ==
    IF n = 0 THEN {<<>>}
    ELSE LET shorter == SeqsUpTo(S, n - 1)
         IN shorter \cup {Append(s, x) : s \in {q \in shorter : Len(q) = n - 1}, x \in S}

Min(S) == CHOOSE x \in S : \A y \in S : x <= y
Max(S) == CHOOSE x \in S : \A y \in S : x >= y

(***************************************************************************)
(* Reply text.  A text is a sequence of tokens: the three-backtick fence,  *)
(* a language tag, a newline, a space, a word that is not JSON, or the     *)
(* JSON document that serialises a value.                                  *)
(***************************************************************************)
Fence == [tok |-> "fence"]
Tag(w) == [tok |-> "tag", w |-> w]
NL == [tok |-> "newline"]
SP == [tok |-> "space"]
Word(w) == [tok |-> "word", w |-> w]
Doc(v) == [tok |-> "doc", v |-> v]

Whitespace == {NL, SP}

\* str.startswith / str.endswith
startswith(text, prefix) ==
    Len(text) >= Len(prefix) /\ SubSeq(text, 1, Len(prefix)) = prefix

\* a test that overlooks one whitespace character after the suffix
endswith_before_whitespace(text, suffix) ==
    LET t == IF text # <<>> /\ text[Len(text)] \in Whitespace
             THEN SubSeq(text, 1, Len(text) - 1)
             ELSE text
    IN Len(t) >= Len(suffix) /\ SubSeq(t, Len(t) - Len(suffix) + 1, Len(t)) = suffix

endswith(text, suffix) ==
    Len(text) >= Len(suffix)
    /\ SubSeq(text, Len(text) - Len(suffix) + 1, Len(text)) = suffix

\* str.strip(): drop the whitespace at both ends
RECURSIVE lstrip(_)
lstrip(text) ==
    IF text # <<>> /\ Head(text) \in Whitespace THEN lstrip(Tail(text)) ELSE text

RECURSIVE rstrip(_)
rstrip(text) ==
    IF text # <<>> /\ text[Len(text)] \in Whitespace
    THEN rstrip(SubSeq(text, 1, Len(text) - 1))
    ELSE text

strip(text) == rstrip(lstrip(text))

\* json.loads: one JSON document, whitespace allowed around it
json_loads(text) ==
    LET body == strip(text)
    IN IF Len(body) = 1 /\ body[1].tok = "doc"
       THEN Returned(body[1].v)
       ELSE Raised("JSONDecodeError")

\* json.dumps
json_dumps(v) == <<Doc(v)>>

\* if answer starts with the fence tagged json and ends with the fence:
\*     answer = answer[len(opening fence) : -len(closing fence)].strip()
strip_fence_keep_closing(answer) ==
    IF startswith(answer, <<Fence, Tag("json")>>) /\ endswith(answer, <<Fence>>)
    THEN strip(SubSeq(answer, 3, Len(answer)))
    ELSE answer

strip_fence(answer) ==
    IF startswith(answer, <<Fence, Tag("json")>>) /\ endswith(answer, <<Fence>>)
    THEN strip(SubSeq(answer, 3, Len(answer) - 1))
    ELSE answer

\* outcome of the model call: the reply text or the exception raised
AnswerReturned(text) == [raised |-> "no", value |-> text]
AnswerRaised(e) == [raised |-> e, value |-> <<>>]

\* process_image after the model call: the except clause re-raises whatever
\* the call or the parse raised; otherwise the value of json.loads is returned
process_image_result_fallback(answer) ==
    IF answer.raised # "no" THEN Raised(answer.raised)
    ELSE IF json_loads(strip_fence(answer.value)).raised # "no"
         THEN Returned(PyDict(empty_combined))
         ELSE json_loads(strip_fence(answer.value))

process_image_result(answer) ==
    IF answer.raised # "no" THEN Raised(answer.raised)
    ELSE json_loads(strip_fence(answer.value))

(***************************************************************************)
(* The file system of temp files, and the requests                         *)
(***************************************************************************)
Apps == {"rest", "upload", "grpc"}
Requests == {"r1", "r2"}

\* the bytes of image i of request r
image_data(r, i) == [req |-> r, index |-> i]

NoPath == <<>>

\* open(path, "wb").write(data)
write_file(fsys, path, data) ==
    [p \in DOMAIN fsys \cup {path} |-> IF p = path THEN data ELSE fsys[p]]

\* if temp_file_path and os.path.exists(temp_file_path): os.remove(temp_file_path)
remove_if_exists(fsys, path) == [p \in DOMAIN fsys \ {path} |-> fsys[p]]

\* uuid.uuid4().hex: a name no live temp file carries
UuidPool == <<"uuid1", "uuid2">>

\* a generator that returns the same name at every call
uuid4_fixed(fsys, ext) == UuidPool[1]

uuid4(fsys, ext) ==
    UuidPool[Min({k \in 1..Len(UuidPool) : <<"temp_", UuidPool[k], ext>> \notin DOMAIN fsys})]

\* f"temp_{uuid.uuid4().hex}.jpeg" (REST), ....jpg (gRPC)
temp_ext(a) == IF a = "rest" THEN ".jpeg" ELSE ".jpg"

\* f"temp_{image_file.filename}" (file upload)
Filenames == {"a.jpg", "b.png"}

\* the URLs of a REST request: path root and extension as written
URLs == {[root |-> "/bucket/a", ext |-> ".jpg"],
         [root |-> "/bucket/b", ext |-> ".PNG"],
         [root |-> "/bucket/c", ext |-> ".txt"]}

\* str.lower() on the extensions that occur
lower(ext) == IF ext = ".PNG" THEN ".png" ELSE ext

\* the extension as the URL spells it
get_file_extension_as_written(url) == url.ext

\* os.path.splitext(urlparse(url).path)[1].lower()
get_file_extension(url) == lower(url.ext)

SupportedExtensions == {".jpeg", ".jpg", ".png", ".gif", ".webp"}

StatusCodes == {"200", "404"}

\* replies of the model
R1 ==
    PyDict([date |-> PyStr("2024-04-25"), location |-> PyStr("ABC mart"),
            items |-> PyList(<<Milk>>), total_amount |-> PyInt(2000)])
R2 ==
    PyDict([date |-> None, location |-> PyStr("ABC mart 2"),
            items |-> PyList(<<Bread, Milk>>), total_amount |-> PyInt(4500)])

\* a reply that omits fields
PartialRecord == PyDict([location |-> PyStr("ABC mart 2")])

ReplyObject == <<Doc(R1)>>
ReplyFenced == <<Fence, Tag("json"), NL, Doc(R2), NL, Fence>>
ReplyNotJson == <<Word("not json at all")>>
ReplyArray == <<Doc(PyList(<<>>))>>
ReplyPartial == <<Doc(PartialRecord)>>

Replies == {ReplyObject, ReplyFenced, ReplyNotJson, ReplyArray, ReplyPartial}

\* what model.invoke can do: return a reply or fail (network, auth, quota)
ModelOutcomes == {AnswerReturned(t) : t \in Replies} \cup {AnswerRaised("APIError")}

\* ImageEncoder.encode_image(image_path): the branch taken.  A path is the
\* sequence of the parts of its string; its first part decides startswith
encode_image(image_path) ==
    IF image_path # <<>> /\ image_path[1] \in {"http://", "https://"}
    THEN "encode_image_from_url"
    ELSE "encode_image_from_file"

\* a call that hands the model a remote address
invoke_argument_remote(temp_file_path) == <<"https://", "host/bucket/a", ".jpg">>

\* the argument of multimodal_llm_with_prompt.invoke: temp_file_path
invoke_argument(temp_file_path) == temp_file_path

\* MultiModal.invoke(path): encode_image reads the file, then the model is called
invoke(fsys, path, outcome) ==
    IF path \in DOMAIN fsys THEN outcome ELSE AnswerRaised("FileNotFoundError")

\* the bytes encode_image reads from the temp file
read_image(fsys, path) ==
    IF path \in DOMAIN fsys THEN fsys[path] ELSE [req |-> "missing", index |-> 0]

\* str(e): the message of exception e; the message of a JSONDecodeError
\* names what the decoder expected and where, not the document
str_e(e) == <<Word(e)>>

\* f"(image processing error): {e}"
error_detail_generic(e) == <<Word("image processing error: ")>>

error_detail(e) == <<Word("image processing error: ")>> \o str_e(e)

\* responses; detail is a text
NoResponse == [code |-> "none", body |-> None, json_output |-> <<>>, detail |-> <<>>]

\* return combined_json (FastAPI serialises the dict)
http_ok(body) == [code |-> "200", body |-> body, json_output |-> <<>>, detail |-> <<>>]

\* raise HTTPException(status_code=..., detail=...)
HTTPException(status_code, detail) ==
    [code |-> status_code, body |-> None, json_output |-> <<>>, detail |-> detail]

\* ledger_pb2.ReceiptsResponse(json_output=json.dumps(combined_json))
ReceiptsResponse(combined_json) ==
    [code |-> "OK", body |-> None, json_output |-> json_dumps(combined_json),
     detail |-> <<>>]

\* except Exception as e: set_details, set_code(INTERNAL), empty response
ProcessReceipts_except_partial(json_outputs, e) ==
    IF combine_json_outputs(json_outputs).raised = "no"
    THEN ReceiptsResponse(combine_json_outputs(json_outputs).value)
    ELSE [code |-> "INTERNAL", body |-> None, json_output |-> <<>>,
          detail |-> error_detail(e)]

ProcessReceipts_except(json_outputs, e) ==
    [code |-> "INTERNAL", body |-> None, json_output |-> <<>>,
     detail |-> error_detail(e)]

\* json_outputs.append(json_output)
append_output_front(json_outputs, json_output) == <<json_output>> \o json_outputs

append_output(json_outputs, json_output) == Append(json_outputs, json_output)

(***************************************************************************)
(* State                                                                   *)
(***************************************************************************)
VARIABLES
    records,    \* the json_outputs argument of a call of combine_json_outputs
    combined,   \* the outcome of that call, NotCalled before it
    app,        \* the adapter that is deployed
    fs,         \* the temp files that exist: path -> bytes
    req,        \* the requests: per request the handler's locals and its log
    reply,      \* a reply text of the model
    parsed,     \* the outcome of process_image's parse step on reply
    parsed_fenced,  \* the outcome of the parse step on reply put in a json fence
    later,      \* the latest call of combine_json_outputs after the first:
                \* its argument, its outcome, the argument of the call before
    mem,        \* the objects of a call of combine_json_outputs: the cells
                \* that exist, the address of the argument, the outcome, and
                \* what the argument and the result held before and after
    batched     \* a call of MultiModal.batch: its arguments, the message
                \* lists handed to model.batch and the contents returned

vars ==
    <<records, combined, app, fs, req, reply, parsed, parsed_fenced, later, mem, batched>>

combine_vars == <<records, combined, later>>

NoLaterCall == [json_outputs |-> <<>>, outcome |-> NotCalled, before |-> <<>>]
handler_vars == <<app, fs, req>>
parse_vars == <<reply, parsed, parsed_fenced>>
heap_vars == <<mem>>
batch_vars == <<batched>>

\* MultiModal.batch has not been called
NoBatch ==
    [image_urls |-> <<>>, system_prompts |-> <<>>, user_prompts |-> <<>>,
     called |-> FALSE, messages |-> <<>>, contents |-> <<>>]

\* no object exists.  cells: the objects, addressed by position;
\* json_outputs: address of the argument list; result: outcome of the call;
\* before_cells, before: the cells and the content of the argument before
\* the call; input_at_return, output_at_return: content of the argument and
\* of the result when the call returned; changed: what the caller changed
\* after the call
NoMemory ==
    [cells |-> <<>>, json_outputs |-> 0, result |-> NotCalled,
     before_cells |-> <<>>, before |-> None,
     input_at_return |-> None, output_at_return |-> None, changed |-> "none"]

\* a request that has not arrived.  Handler locals: n (number of images),
\* idx (loop position), temp_file_path, answer, json_outputs, response.
\* Log: answers (outcome of each model call), results (outcome of each
\* process_image call), trace (model invocations and process_image exits),
\* combine_calls (arguments combine_json_outputs was called with),
\* downloads (number of requests.get calls made), rejected (the download
\* the handler raised HTTPException(400) for).
NoDownload == [index |-> 0, url |-> [root |-> "", ext |-> ""], status_code |-> "none"]

NoRequest ==
    [pc |-> "none", n |-> 0, idx |-> 0, temp_file_path |-> NoPath,
     answer |-> AnswerRaised("none"), json_outputs |-> <<>>,
     answers |-> <<>>, results |-> <<>>, trace |-> <<>>,
     combine_calls |-> <<>>, response |-> NoResponse,
     downloads |-> 0, rejected |-> NoDownload, rpc |-> "none", encoders |-> <<>>]

\* what a client can call: the route of the HTTP adapters; the two methods
\* the gRPC client calls on its stub
Callable(a) ==
    IF a = "grpc" THEN {"ProcessReceipt", "ProcessReceipts"} ELSE {"ledger_receipt"}

\* the handlers the adapters define: LedgerServiceServicer has the one
\* method ProcessReceipts
Handlers(a) == IF a = "grpc" THEN {"ProcessReceipts"} ELSE {"ledger_receipt"}

\* a call of a method the servicer does not define is not served: the
\* client gets an error status and no json_output
not_served(rq) ==
    [rq EXCEPT
        !.pc = "done",
        !.response = [code |-> "UNIMPLEMENTED", body |-> None, json_output |-> <<>>,
                      detail |-> <<Word("Method not implemented!")>>]]

(***************************************************************************)
(* SpecCombine: combine_json_outputs applied to every bounded input        *)
(***************************************************************************)
InitCombine ==
    /\ records \in SeqsUpTo(Records, MaxRecords)
    /\ combined = NotCalled
    /\ later = NoLaterCall
    /\ app = "rest"
    /\ fs = <<>>
    /\ req = [r \in Requests |-> NoRequest]
    /\ reply = <<>>
    /\ parsed = NotCalled
    /\ parsed_fenced = NotCalled
    /\ mem = NoMemory
    /\ batched = NoBatch

CombineCall ==
    /\ combined = NotCalled
    /\ combined' = combine_call(NotCalled, records)
    /\ UNCHANGED <<heap_vars, batch_vars, records, later, handler_vars, parse_vars>>

\* a further call, on the same argument again or on the empty list
CombineLater ==
    /\ combined # NotCalled
    /\ \E json_outputs \in {records, <<>>} :
          later' = [json_outputs |-> json_outputs,
                    outcome |-> combine_call(IF later = NoLaterCall THEN combined
                                             ELSE later.outcome,
                                             json_outputs),
                    before |-> IF later = NoLaterCall THEN records
                               ELSE later.json_outputs]
    /\ UNCHANGED <<heap_vars, batch_vars, records, combined, handler_vars, parse_vars>>

NextCombine == CombineCall \/ CombineLater

SpecCombine == InitCombine /\ [][NextCombine]_vars


(***************************************************************************)
(* SpecParse: the parse step of process_image (fence stripping and         *)
(* json.loads) applied to every bounded reply text, and to the same text   *)
(* wrapped in a fence tagged json                                          *)
(***************************************************************************)
ReplyTokens == {Fence, Tag("json"), Tag("python"), NL, Doc(R1), Doc(PartialRecord)}

\* opening fence tagged json, newline, text, newline, closing fence
fenced(text) == <<Fence, Tag("json"), NL>> \o text \o <<NL, Fence>>

InitParse ==
    /\ reply \in SeqsUpTo(ReplyTokens, MaxReplyLen)
    /\ parsed = NotCalled
    /\ parsed_fenced = NotCalled
    /\ records = <<>>
    /\ combined = NotCalled
    /\ later = NoLaterCall
    /\ app = "rest"
    /\ fs = <<>>
    /\ req = [r \in Requests |-> NoRequest]
    /\ mem = NoMemory
    /\ batched = NoBatch

ParseReply ==
    /\ parsed = NotCalled
    /\ parsed' = process_image_result(AnswerReturned(reply))
    /\ parsed_fenced' = process_image_result(AnswerReturned(fenced(reply)))
    /\ UNCHANGED <<heap_vars, batch_vars, reply, combine_vars, handler_vars>>

NextParse == ParseReply

SpecParse == InitParse /\ [][NextParse]_vars

(***************************************************************************)
(* Spec: the request handlers.  An action is what a handler does between   *)
(* two suspension points (await), or what the worker thread of             *)
(* asyncio.to_thread does.                                                 *)
(***************************************************************************)
\* after the loop: combine_json_outputs(json_outputs) and the response.  An
\* exception of combine is caught by ProcessReceipts (gRPC) and is an
\* unhandled error, HTTP 500, in the HTTP adapters.
respond(a, rq) ==
    LET combined_json == combine_json_outputs_of(a, rq.json_outputs)
    IN [rq EXCEPT
          !.pc = "done",
          !.combine_calls = Append(@, rq.json_outputs),
          !.response =
              IF combined_json.raised = "no"
              THEN IF a = "grpc" THEN ReceiptsResponse(combined_json.value)
                   ELSE http_ok(combined_json.value)
              ELSE IF a = "grpc"
                   THEN ProcessReceipts_except(rq.json_outputs, combined_json.raised)
                   ELSE HTTPException("500", <<Word("Internal Server Error")>>)]

\* process_image raised e: REST and upload wrap it in HTTPException(500),
\* gRPC re-raises it into the except clause of ProcessReceipts
abort(a, rq, e) ==
    [rq EXCEPT
        !.pc = "done",
        !.response = IF a = "grpc" THEN ProcessReceipts_except(rq.json_outputs, e)
                     ELSE HTTPException("500", error_detail(e))]

\* process_image up to `await asyncio.to_thread(...)`: the temp file is
\* written and the worker thread is started (REST, gRPC)
stage(a, rq, fsys, r, i) ==
    LET path == <<"temp_", uuid4(fsys, temp_ext(a)), temp_ext(a)>>
    IN [rq |-> [rq EXCEPT !.pc = "thread", !.idx = i, !.temp_file_path = path],
        fs |-> write_file(fsys, path, image_data(r, i))]

\* one turn of `for image in ...` up to the next suspension point; url and
\* status_code are the URL of image i and the status of its download (REST)
iterate(a, rq, fsys, r, i, url, status_code) ==
    IF i > rq.n THEN [rq |-> respond(a, rq), fs |-> fsys]
    ELSE IF a = "upload"
         THEN [rq |-> [rq EXCEPT !.pc = "read", !.idx = i], fs |-> fsys]
    ELSE IF a = "grpc" THEN stage(a, rq, fsys, r, i)
    ELSE IF status_code # "200"
         THEN [rq |-> [rq EXCEPT !.pc = "done",
                          !.downloads = @ + 1,
                          !.rejected = [index |-> i, url |-> url,
                                        status_code |-> status_code],
                          !.response = HTTPException("400", <<Word("download failed: "), Word(url.root)>>)],
               fs |-> fsys]
    ELSE IF get_file_extension(url) \notin SupportedExtensions
         THEN [rq |-> [rq EXCEPT !.pc = "done",
                          !.downloads = @ + 1,
                          !.rejected = [index |-> i, url |-> url,
                                        status_code |-> status_code],
                          !.response = HTTPException("400", <<Word("unsupported file type: "),
                                                            Word(get_file_extension(url))>>)],
               fs |-> fsys]
    ELSE stage(a, [rq EXCEPT !.downloads = @ + 1], fsys, r, i)

\* process_image after the await (REST, gRPC): parse, finally remove the temp
\* file; then the handler appends the record and goes on with the loop
resume(a, rq, fsys, r, url, status_code) ==
    LET result == process_image_result(rq.answer)
        removed == remove_if_exists(fsys, rq.temp_file_path)
        logged == [rq EXCEPT
                     !.answers = Append(@, rq.answer),
                     !.results = Append(@, result),
                     !.trace = Append(@, [ev |-> "exit", image |-> image_data(r, rq.idx)])]
    IN IF result.raised # "no"
       THEN [rq |-> abort(a, logged, result.raised), fs |-> removed]
       ELSE iterate(a,
                    [logged EXCEPT !.json_outputs = append_output(@, result.value)],
                    removed, r, rq.idx + 1, url, status_code)

\* process_image of the upload adapter after `await image_file.read()`: write
\* temp_<filename> and call multimodal_llm_with_prompt.invoke on the event
\* loop itself
upload_start(rq, fsys, r, filename) ==
    LET path == <<"temp_", filename>>
        written == write_file(fsys, path, image_data(r, rq.idx))
    IN [rq |-> [rq EXCEPT
                  !.pc = "blocking",
                  !.temp_file_path = path,
                  !.encoders = Append(@, encode_image(invoke_argument(path))),
                  !.trace = Append(@, [ev |-> "invoke",
                                       image |-> read_image(written, path)])],
        fs |-> written]

\* a clean-up placed after json.loads: skipped when the parse raises
upload_remove_after_parse(fsys, path, result) ==
    IF result.raised = "no" THEN remove_if_exists(fsys, path) ELSE fsys

\* os.remove(temp_file_path) on the line after invoke, before the reply is
\* stripped and parsed: it runs whatever the parse will give
upload_remove(fsys, path, result) == remove_if_exists(fsys, path)

\* ... and when invoke has returned or raised: remove the file (only if it
\* returned), parse, append, go on with the loop; no await in between
upload_return(rq, fsys, r, outcome) ==
    LET answer == invoke(fsys, invoke_argument(rq.temp_file_path), outcome)
        result == process_image_result(answer)
        logged == [rq EXCEPT
                     !.answer = answer,
                     !.answers = Append(@, answer),
                     !.results = Append(@, result),
                     !.trace = Append(@, [ev |-> "exit", image |-> image_data(r, rq.idx)])]
    IN IF answer.raised # "no"
       THEN [rq |-> abort("upload", logged, answer.raised), fs |-> fsys]
       ELSE IF result.raised # "no"
       THEN [rq |-> abort("upload", logged, result.raised),
             fs |-> upload_remove(fsys, rq.temp_file_path, result)]
       ELSE iterate("upload",
                    [logged EXCEPT !.json_outputs = append_output(@, result.value)],
                    upload_remove(fsys, rq.temp_file_path, result), r, rq.idx + 1,
                    CHOOSE u \in URLs : TRUE, "200")

\* the event loop runs handler code only while no handler blocks it in a
\* synchronous call of the model
LoopFree == \A r \in Requests : req[r].pc # "blocking"

Init ==
    /\ records = <<>>
    /\ combined = NotCalled
    /\ later = NoLaterCall
    /\ app \in Apps
    /\ fs = <<>>
    /\ req = [r \in Requests |-> NoRequest]
    /\ reply = <<>>
    /\ parsed = NotCalled
    /\ parsed_fenced = NotCalled
    /\ mem = NoMemory
    /\ batched = NoBatch

\* a request with n images arrives; the handler runs to its first await
Receive(r) ==
    /\ req[r].pc = "none"
    /\ LoopFree
    /\ \E rpc \in Callable(app), n \in 0..MaxImages, url \in URLs,
          status_code \in StatusCodes :
          /\ app = "upload" => n >= 1
          /\ rpc = "ProcessReceipt" => n = 1
          /\ LET called == [req[r] EXCEPT !.n = n, !.rpc = rpc]
                 next == IF rpc \in Handlers(app)
                         THEN iterate(app, called, fs, r, 1, url, status_code)
                         ELSE [rq |-> not_served(called), fs |-> fs]
             IN /\ req' = [req EXCEPT ![r] = next.rq]
                /\ fs' = next.fs
    /\ UNCHANGED <<heap_vars, batch_vars, combine_vars, parse_vars, app>>

\* REST, gRPC: the worker thread runs multimodal_llm_with_prompt.invoke
ThreadInvoke(r) ==
    /\ req[r].pc = "thread"
    /\ \E outcome \in ModelOutcomes :
          req' = [req EXCEPT
                    ![r].pc = "replied",
                    ![r].answer = invoke(fs, invoke_argument(req[r].temp_file_path), outcome),
                    ![r].encoders =
                        Append(@, encode_image(invoke_argument(req[r].temp_file_path))),
                    ![r].trace = Append(@, [ev |-> "invoke",
                                            image |-> read_image(fs, req[r].temp_file_path)])]
    /\ UNCHANGED <<heap_vars, batch_vars, combine_vars, parse_vars, app, fs>>

\* REST, gRPC: the handler resumes with the answer of the thread
Resume(r) ==
    /\ req[r].pc = "replied"
    /\ LoopFree
    /\ \E url \in URLs, status_code \in StatusCodes :
          LET next == resume(app, req[r], fs, r, url, status_code)
          IN /\ req' = [req EXCEPT ![r] = next.rq]
             /\ fs' = next.fs
    /\ UNCHANGED <<heap_vars, batch_vars, combine_vars, parse_vars, app>>

\* upload: the handler resumes after image_file.read() and calls the model
ProcessUploaded(r) ==
    /\ req[r].pc = "read"
    /\ LoopFree
    /\ \E filename \in Filenames :
          LET next == upload_start(req[r], fs, r, filename)
          IN /\ req' = [req EXCEPT ![r] = next.rq]
             /\ fs' = next.fs
    /\ UNCHANGED <<heap_vars, batch_vars, combine_vars, parse_vars, app>>

\* upload: the synchronous model call returns or raises
UploadReturn(r) ==
    /\ req[r].pc = "blocking"
    /\ \E outcome \in ModelOutcomes :
          LET next == upload_return(req[r], fs, r, outcome)
          IN /\ req' = [req EXCEPT ![r] = next.rq]
             /\ fs' = next.fs
    /\ UNCHANGED <<heap_vars, batch_vars, combine_vars, parse_vars, app>>

Next ==
    \E r \in Requests :
        \/ Receive(r)
        \/ ThreadInvoke(r)
        \/ Resume(r)
        \/ ProcessUploaded(r)
        \/ UploadReturn(r)

Spec == Init /\ [][Next]_vars

(***************************************************************************)
(* Properties of combine_json_outputs (checked under SpecCombine)          *)
(***************************************************************************)
CombineReturned == combined.raised = "no"

\* a value that is present: neither null/absent nor the empty text
NonEmpty(v) == v # None /\ v # PyStr("")

\* positions of the records that carry a non-empty value under `key`
NonEmptyAt(key) == {i \in 1..Len(records) : NonEmpty(get(records[i], key))}

\* positions of the records that carry a non-null value under `key`
NonNullAt(key) == {i \in 1..Len(records) : get(records[i], key) # None}

FirstNonEmpty(key) ==
    IF NonEmptyAt(key) = {} THEN None ELSE get(records[Min(NonEmptyAt(key))], key)

LastNonNull(key) ==
    IF NonNullAt(key) = {} THEN None ELSE get(records[Max(NonNullAt(key))], key)

\* C1: the combined date is the date of the first record, in input order,
\* whose date is non-null/non-empty, and null when no record has one.
C1_DateFirstWins ==
    CombineReturned => combined.value.d.date = FirstNonEmpty("date")

\* two records carry different dates and the earlier one is the result
C1_Witness ==
    /\ CombineReturned
    /\ \E i, j \in NonEmptyAt("date") :
          /\ i < j
          /\ get(records[i], "date") # get(records[j], "date")
          /\ combined.value.d.date = get(records[i], "date")

\* C2: the combined total_amount is the total_amount of the last record, in
\* input order, whose total_amount is non-null, and null when there is none.
C2_TotalLastNonNull ==
    CombineReturned => combined.value.d.total_amount = LastNonNull("total_amount")

\* C3: a total_amount of 0 counts as a total: when the last record that has a
\* non-null total has total 0, the combined total_amount is 0 (not an earlier
\* total, not null).
C3_ZeroTotalCounts ==
    (/\ CombineReturned
     /\ NonNullAt("total_amount") # {}
     /\ LastNonNull("total_amount") = PyInt(0))
        => combined.value.d.total_amount = PyInt(0)

\* the items a record contributes (none when the key is absent)
ItemsOf(r) == get_default(r, "items", PyList(<<>>)).l

RECURSIVE ConcatItems(_)
ConcatItems(rs) ==
    IF rs = <<>> THEN <<>> ELSE ItemsOf(Head(rs)) \o ConcatItems(Tail(rs))

RECURSIVE SumItemCounts(_)
SumItemCounts(rs) ==
    IF rs = <<>> THEN 0 ELSE Len(ItemsOf(Head(rs))) + SumItemCounts(Tail(rs))

\* C4: the combined items are the ordered concatenation of the records'
\* items; the length is the sum of the item counts, nothing dropped or merged.
C4_ItemsConcatenated ==
    CombineReturned =>
        /\ combined.value.d.items.l = ConcatItems(records)
        /\ Len(combined.value.d.items.l) = SumItemCounts(records)

\* two records carry items, one item occurs in both, and all are kept in order
C4_Witness ==
    /\ CombineReturned
    /\ \E i, j \in 1..Len(records) :
          /\ i < j
          /\ ItemsOf(records[i]) = <<Bread, Milk>>
          /\ ItemsOf(records[j]) = <<Milk>>
    /\ Len(combined.value.d.items.l) >= 3

\* C5: the combined location is the location of the first record, in input
\* order, whose location is non-empty, and null when no record has one.
C5_LocationFirstWins ==
    CombineReturned => combined.value.d.location = FirstNonEmpty("location")

\* two records carry different locations and the earlier one is the result
C5_Witness ==
    /\ CombineReturned
    /\ \E i, j \in NonEmptyAt("location") :
          /\ i < j
          /\ get(records[i], "location") # get(records[j], "location")
          /\ combined.value.d.location = get(records[i], "location")

(***************************************************************************)
(* Properties of the request handlers (checked under Spec)                 *)
(***************************************************************************)
\* the calls of process_image that request r has completed
Calls(r) == 1..Len(req[r].results)

\* the reply of call i of request r after fence stripping, parsed
Parsed(r, i) == json_loads(strip_fence(req[r].answers[i].value))

ErrorCodes == {"500", "INTERNAL"}

\* C6: when the reply, after normalisation, is not valid JSON (such as the
\* text 'not json at all'), process_image raises and returns no record: the
\* request ends in an error and no record of that image is kept.
C6_NotJsonRaises ==
    \A r \in Requests : \A i \in Calls(r) :
        (/\ req[r].answers[i].raised = "no"
         /\ \/ Parsed(r, i).raised # "no"
            \/ req[r].answers[i].value = ReplyNotJson)
            => /\ req[r].results[i].raised # "no"
               /\ Len(req[r].json_outputs) < i
               /\ req[r].pc = "done"
               /\ req[r].response.code \in ErrorCodes

\* the second image of a request was answered with 'not json at all'
C6_Witness ==
    \E r \in Requests :
        /\ Len(req[r].answers) = 2
        /\ req[r].answers[2] = AnswerReturned(ReplyNotJson)
        /\ req[r].results[2].raised = "JSONDecodeError"
        /\ req[r].response.code \in ErrorCodes

\* C7: when the reply, after normalisation, is valid JSON but not an object,
\* process_image raises instead of returning the parsed value.
C7_NonObjectRaises ==
    \A r \in Requests : \A i \in Calls(r) :
        (/\ req[r].answers[i].raised = "no"
         /\ Parsed(r, i).raised = "no"
         /\ Parsed(r, i).value.t # "dict")
            => req[r].results[i].raised # "no"

\* C8: a temp file exists only while the process_image call that created it
\* has neither returned nor raised.
C8_TempFileRemoved ==
    \A p \in DOMAIN fs :
        \E r \in Requests :
            /\ req[r].pc \in {"thread", "replied", "blocking"}
            /\ req[r].temp_file_path = p

\* every call of process_image of request r returned, for all n images
AllSucceeded(r) ==
    /\ req[r].pc = "done"
    /\ Len(req[r].results) = req[r].n
    /\ \A i \in Calls(r) : req[r].results[i].raised = "no"

\* the k-th event of a request that handles its images one after the other:
\* invoke image 1, exit 1, invoke image 2, exit 2, ...
ExpectedEvent(r, k) ==
    IF k % 2 = 1 THEN [ev |-> "invoke", image |-> image_data(r, (k + 1) \div 2)]
    ELSE [ev |-> "exit", image |-> image_data(r, k \div 2)]

\* C9: the model is invoked on the images in submission order, each once, an
\* invocation starting only after the extraction of the previous image has
\* finished; when every image succeeds, combine_json_outputs is handed, as
\* i-th record, the record parsed from the reply for image i.
C9_SequentialInOrder ==
    \A r \in Requests :
        /\ \A k \in 1..Len(req[r].trace) : req[r].trace[k] = ExpectedEvent(r, k)
        /\ AllSucceeded(r) =>
              /\ Len(req[r].trace) = 2 * req[r].n
              /\ req[r].combine_calls = <<req[r].json_outputs>>
              /\ Len(req[r].json_outputs) = req[r].n
              /\ \A i \in Calls(r) : req[r].json_outputs[i] = Parsed(r, i).value

\* a request of two images with different replies was answered with a record
C9_Witness ==
    \E r \in Requests :
        /\ AllSucceeded(r)
        /\ req[r].n = 2
        /\ req[r].answers[1].value # req[r].answers[2].value
        /\ req[r].response.code \in {"200", "OK"}

\* C10: if process_image raises for an image, the request ends with an error
\* that carries no record, combine_json_outputs is not called, and whenever
\* combine_json_outputs is called its argument holds exactly the records the
\* calls of process_image returned.
C10_AbortOnFailure ==
    \A r \in Requests :
        /\ (\E i \in Calls(r) : req[r].results[i].raised # "no")
              => /\ req[r].pc = "done"
                 /\ req[r].response.code \in ErrorCodes
                 /\ req[r].response.body = None
                 /\ req[r].response.json_output = <<>>
                 /\ req[r].combine_calls = <<>>
        /\ \A c \in 1..Len(req[r].combine_calls) :
              /\ Len(req[r].combine_calls[c]) = Len(req[r].results)
              /\ \A i \in Calls(r) :
                    req[r].results[i] = Returned(req[r].combine_calls[c][i])

\* the first image gave a record with items, the second image failed
C10_Witness ==
    \E r \in Requests :
        /\ Len(req[r].results) = 2
        /\ req[r].results[1] = Returned(R1)
        /\ req[r].results[2].raised # "no"
        /\ req[r].response.code \in ErrorCodes

(***************************************************************************)
(* Properties of the parse step (checked under SpecParse)                  *)
(***************************************************************************)
\* a text that is one JSON object, whitespace allowed around it
IsJsonObjectText(text) ==
    /\ Len(strip(text)) = 1
    /\ strip(text)[1].tok = "doc"
    /\ strip(text)[1].v.t = "dict"

\* C11: for every JSON object text J, the parse step on J wrapped in a json
\* fence (fence json, newline, J, newline, fence) yields the same record as
\* the parse step on J itself.
C11_FencedSameAsPlain ==
    (parsed # NotCalled /\ IsJsonObjectText(reply))
        => /\ parsed.raised = "no"
           /\ parsed_fenced = parsed

\* the object R1 was parsed from its plain and from its fenced text
C11_Witness ==
    /\ reply = <<Doc(R1)>>
    /\ parsed = Returned(R1)
    /\ parsed_fenced = Returned(R1)

(***************************************************************************)
(* Properties of repeated calls of combine_json_outputs (SpecCombine)      *)
(***************************************************************************)
EmptyCombinedRecord ==
    PyDict([date |-> None, location |-> None, items |-> PyList(<<>>),
            total_amount |-> None])

\* C12: combine_json_outputs on the empty sequence returns exactly
\* {date: null, location: null, items: [], total_amount: null}, at the first
\* call and at every later call, whatever an earlier call appended.
C12_EmptyInput ==
    /\ (combined # NotCalled /\ records = <<>>)
          => combined = Returned(EmptyCombinedRecord)
    /\ (later # NoLaterCall /\ later.json_outputs = <<>>)
          => later.outcome = Returned(EmptyCombinedRecord)

\* a call that collected items was followed by a call on the empty sequence
C12_Witness ==
    /\ CombineReturned
    /\ combined.value.d.items.l # <<>>
    /\ later.before = records
    /\ later.json_outputs = <<>>
    /\ later.outcome = Returned(EmptyCombinedRecord)

\* C13: combine_json_outputs raises no error, whatever the input sequence:
\* records that omit fields, records with null fields (items: null among
\* them) and the empty sequence all give a combined record.
C13_CombineNeverRaises ==
    combined # NotCalled => combined.raised = "no"

\* C18: two calls of combine_json_outputs on equal input sequences return
\* equal results, whatever call was made in between.
C18_SameInputSameResult ==
    (later # NoLaterCall /\ later.json_outputs = records)
        => later.outcome = combined

\* records with items were combined, then the empty sequence, then the same
\* records again, with the result of the first call
C18_Witness ==
    /\ CombineReturned
    /\ combined.value.d.items.l # <<>>
    /\ later.before = <<>>
    /\ later.json_outputs = records
    /\ later.outcome = combined

(***************************************************************************)
(* Shape of records and responses                                          *)
(***************************************************************************)
ReceiptRecordFields == {"date", "location", "items", "total_amount"}

\* C14: every successful /ledger_receipt response is a JSON object with all
\* four keys date, location, items and total_amount, whatever fields the
\* replies of the model contained or omitted.
C14_ResponseHasFourKeys ==
    \A r \in Requests :
        req[r].response.code = "200"
            => /\ req[r].response.body.t = "dict"
               /\ DOMAIN req[r].response.body.d = ReceiptRecordFields

\* a request whose only reply omitted three fields was answered with 200
\* and all four keys
C14_Witness ==
    \E r \in Requests :
        /\ app \in {"rest", "upload"}
        /\ req[r].results = <<Returned(PartialRecord)>>
        /\ req[r].response.code = "200"
        /\ DOMAIN req[r].response.body.d = ReceiptRecordFields
        /\ req[r].response.body.d.date = None

\* C19: the record process_image returns always has the four ReceiptRecord
\* fields; a field the JSON of the model omitted is null (date, location,
\* total_amount) or the empty list (items).
C19_RecordHasFourFields ==
    (parsed.raised = "no" /\ parsed.value.t = "dict")
        => DOMAIN parsed.value.d = ReceiptRecordFields

(***************************************************************************)
(* Errors surfaced to the caller                                           *)
(***************************************************************************)
\* text sub occurs in text
Contains(text, sub) ==
    \E i \in 1..(Len(text) + 1 - Len(sub)) :
        SubSeq(text, i, i + Len(sub) - 1) = sub

\* the last model call of request r raised
ModelFailed(r) ==
    /\ req[r].answers # <<>>
    /\ req[r].answers[Len(req[r].answers)].raised # "no"

\* the last model call of request r returned a reply that json.loads rejected
ParseFailed(r) ==
    /\ req[r].answers # <<>>
    /\ req[r].answers[Len(req[r].answers)].raised = "no"
    /\ req[r].results[Len(req[r].results)].raised = "JSONDecodeError"

\* the invoke events request r logged
Invocations(r) == {k \in 1..Len(req[r].trace) : req[r].trace[k].ev = "invoke"}

\* C15: a failure of the model call and a malformed reply give error
\* responses the caller can tell apart, and the response for a parse failure
\* includes the raw reply text of the model.
C15_ErrorsDistinguishable ==
    /\ \A r1, r2 \in Requests :
          (ModelFailed(r1) /\ ParseFailed(r2))
              => req[r1].response # req[r2].response
    /\ \A r \in Requests :
          ParseFailed(r)
              => Contains(req[r].response.detail,
                          req[r].answers[Len(req[r].answers)].value)

\* C20: when the model call fails for an image, the call is not retried and
\* the failure is not handled locally: the request ends with HTTP 500 (REST,
\* upload) or status INTERNAL (gRPC), and the detail carries the message of
\* the exception the call raised.
C20_ModelFailureSurfaced ==
    \A r \in Requests :
        ModelFailed(r)
            => LET e == req[r].answers[Len(req[r].answers)].raised
               IN /\ req[r].pc = "done"
                  /\ req[r].results[Len(req[r].results)] = Raised(e)
                  /\ req[r].response.code = IF app = "grpc" THEN "INTERNAL" ELSE "500"
                  /\ Contains(req[r].response.detail, str_e(e))
                  /\ req[r].response.body = None
                  /\ req[r].response.json_output = <<>>
                  /\ Cardinality(Invocations(r)) = Len(req[r].answers)

\* the second model call of a request failed after the first gave a record
C20_Witness ==
    \E r \in Requests :
        /\ Len(req[r].answers) = 2
        /\ req[r].answers[2] = AnswerRaised("APIError")
        /\ req[r].results[1] = Returned(R1)
        /\ req[r].response.code \in ErrorCodes
        /\ Contains(req[r].response.detail, str_e("APIError"))
        /\ Cardinality(Invocations(r)) = 2

(***************************************************************************)
(* Concurrent requests                                                     *)
(***************************************************************************)
\* request r waits for the model call to return
AwaitsModel(r) == req[r].pc \in {"thread", "blocking"}

\* request r has handler code to run: it arrived, or the await it was
\* suspended in has completed
HandlerReady(r) == req[r].pc \in {"none", "read", "replied"}

\* C16: in each adapter, while one request waits for the model call to
\* return, another request with handler code to run can run it: the model
\* call does not block the event loop.
C16_ModelCallDoesNotBlock ==
    \A r, o \in Requests :
        (r # o /\ AwaitsModel(r) /\ HandlerReady(o))
            => ENABLED (Receive(o) \/ ProcessUploaded(o) \/ Resume(o))

\* request r is inside process_image with its temp file written
InProcessImage(r) == req[r].pc \in {"thread", "replied", "blocking"}

Delivered(r) ==
    IF req[r].response.code = "200" THEN Returned(req[r].response.body)
    ELSE IF req[r].response.code = "OK" THEN json_loads(req[r].response.json_output)
    ELSE Raised("error")

\* the records parsed from the replies request r received, in order
RepliedRecords(r) == [i \in Calls(r) |-> Parsed(r, i).value]

\* outcome o with its exception, if any, reduced to the fact of an error
AsDelivered(o) == IF o.raised = "no" THEN o ELSE Raised("error")

\* C21 (first part, all record sequences): the combine_json_outputs of the
\* REST, file-upload and gRPC adapters return equal results for every
\* sequence of per-image records.
C21_CombineEqualAcrossAdapters ==
    combined # NotCalled
        => /\ combined = combine_json_outputs(records)
           /\ combine_json_outputs_upload(records) = combined
           /\ combine_json_outputs_gRPC(records) = combined

\* C21: the three transports are interchangeable: on every argument a
\* handler passes, the combine_json_outputs of the three adapters return
\* equal results, and when every image of a request succeeds the adapter
\* delivers the combination of the records parsed from the replies, which
\* depends on the replies alone and not on the adapter.
C21_TransportsInterchangeable ==
    \A r \in Requests :
        /\ \A c \in 1..Len(req[r].combine_calls) :
              /\ combine_json_outputs_upload(req[r].combine_calls[c])
                    = combine_json_outputs(req[r].combine_calls[c])
              /\ combine_json_outputs_gRPC(req[r].combine_calls[c])
                    = combine_json_outputs(req[r].combine_calls[c])
        /\ AllSucceeded(r)
              => Delivered(r) = AsDelivered(combine_json_outputs(RepliedRecords(r)))

\* a gRPC request with two images delivered date and location of the first
\* reply and the items of both
C21_Witness ==
    \E r \in Requests :
        /\ app = "grpc"
        /\ AllSucceeded(r)
        /\ RepliedRecords(r) = <<R1, R2>>
        /\ Delivered(r).raised = "no"
        /\ Delivered(r).value.d.date = R1.d.date
        /\ Delivered(r).value.d.items = PyList(<<Milk, Bread, Milk>>)

(***************************************************************************)
(* SpecHeap: combine_json_outputs on objects.  A list or a dict is a cell  *)
(* with an address; a list element or a dict value is None, a str, an int  *)
(* (immutable, held by value) or the address of a cell.                    *)
(***************************************************************************)
Ref(a) == [t |-> "ref", a |-> a]

\* the content reachable from value v: every address replaced by the
\* content of its cell
RECURSIVE deref(_, _)
deref(cells, v) ==
    IF v.t # "ref" THEN v
    ELSE IF cells[v.a].t = "list"
         THEN PyList([i \in 1..Len(cells[v.a].l) |-> deref(cells, cells[v.a].l[i])])
         ELSE PyDict([k \in DOMAIN cells[v.a].d |-> deref(cells, cells[v.a].d[k])])

\* an item of a receipt, as the dict json.loads builds
ItemDict(name, price) == PyDict([name |-> PyStr(name), price |-> PyInt(price)])

\* the per-image records of the argument: the date, and whether the key
\* items is absent, null or a list of items
RecordShapes ==
    {[date |-> dt, items |-> it] :
        dt \in {None, PyStr("2024-04-25")},
        it \in {[key |-> "absent", l |-> <<>>],
                [key |-> "null", l |-> <<>>],
                [key |-> "list", l |-> <<>>],
                [key |-> "list", l |-> <<ItemDict("milk", 2000)>>],
                [key |-> "list", l |-> <<ItemDict("bread", 1500), ItemDict("milk", 2000)>>]}}

\* json.loads building one record: its item dicts, its items list, the dict
\* itself as the last cell
alloc_record(cells, shape) ==
    LET n == Len(cells)
        k == Len(shape.items.l)
        with_items == cells \o shape.items.l
        items_list == PyList([i \in 1..k |-> Ref(n + i)])
    IN IF shape.items.key = "list"
       THEN with_items \o <<items_list,
                             PyDict([date |-> shape.date, items |-> Ref(n + k + 1)])>>
       ELSE IF shape.items.key = "null"
       THEN Append(cells, PyDict([date |-> shape.date, items |-> None]))
       ELSE Append(cells, PyDict([date |-> shape.date]))

\* json_outputs = []; json_outputs.append(record) for each shape
RECURSIVE alloc_json_outputs(_, _, _, _)
alloc_json_outputs(cells, shapes, i, refs) ==
    IF i > Len(shapes) THEN Append(cells, PyList(refs))
    ELSE LET next == alloc_record(cells, shapes[i])
         IN alloc_json_outputs(next, shapes, i + 1, Append(refs, Ref(Len(next))))

\* list.extend(values) on the list at address a
list_extend(cells, a, values) == [cells EXCEPT ![a].l = @ \o values]

\* d[key] = v on the dict at address a (key present)
dict_setitem(cells, a, key, v) == [cells EXCEPT ![a].d[key] = v]

\* the list combined_data["items"] refers to.  Line 197 evaluates the
\* literal [] and gets the new list at address `fresh`; the variant takes
\* over the items list of the first record that has one
items_list_taken_over(cells, json_outputs, fresh) ==
    LET have == {i \in 1..Len(cells[json_outputs].l) :
                    LET data == cells[cells[json_outputs].l[i].a]
                    IN get(data, "items").t = "ref"}
    IN IF have = {} THEN fresh
       ELSE cells[cells[json_outputs].l[Min(have)].a].d.items.a

items_list_literal(cells, json_outputs, fresh) == fresh

\* the statements of the loop body that assign to combined_data (date,
\* location, total_amount), on the dict at address c
heap_assignments(cells, c, data) ==
    LET dated == IF ~truthy(cells[c].d.date) /\ truthy(get(data, "date"))
                 THEN dict_setitem(cells, c, "date", data.d["date"])
                 ELSE cells
        located == IF ~truthy(dated[c].d.location) /\ truthy(get(data, "location"))
                   THEN dict_setitem(dated, c, "location", data.d["location"])
                   ELSE dated
    IN IF truthy(get(data, "total_amount"))
       THEN dict_setitem(located, c, "total_amount", data.d["total_amount"])
       ELSE located

\* the loop of combine_json_outputs from record i on; l and c are the
\* addresses of the items list and of combined_data.  extend runs between
\* the assignments of location and of total_amount; they touch different
\* cells, so the assignments are applied together
RECURSIVE heap_loop(_, _, _, _, _)
heap_loop(cells, json_outputs, l, c, i) ==
    IF i > Len(cells[json_outputs].l)
    THEN [cells |-> cells, result |-> Returned(Ref(c))]
    ELSE LET data == cells[cells[json_outputs].l[i].a]
             items == get_default(data, "items", PyList(<<>>))
         IN IF items.t = "null"
            THEN [cells |-> cells, result |-> Raised("TypeError")]
            ELSE heap_loop(list_extend(heap_assignments(cells, c, data), l,
                                       IF items.t = "ref" THEN cells[items.a].l
                                       ELSE items.l),
                           json_outputs, l, c, i + 1)

\* combine_json_outputs(json_outputs): the dict literal makes two new cells
heap_combine(cells, json_outputs) ==
    LET fresh == Len(cells) + 1
        l == items_list_literal(cells, json_outputs, fresh)
        c == Len(cells) + 2
        literal == cells \o <<PyList(<<>>),
                              PyDict([date |-> None, location |-> None,
                                      items |-> Ref(l), total_amount |-> None])>>
    IN heap_loop(literal, json_outputs, l, c, 1)

\* the caller holds a list of records that json.loads built
InitHeap ==
    /\ \E shapes \in SeqsUpTo(RecordShapes, MaxRecords) :
          LET cells == alloc_json_outputs(<<>>, shapes, 1, <<>>)
          IN mem = [NoMemory EXCEPT
                      !.cells = cells,
                      !.json_outputs = Len(cells),
                      !.before_cells = cells,
                      !.before = deref(cells, Ref(Len(cells)))]
    /\ batched = NoBatch
    /\ records = <<>>
    /\ combined = NotCalled
    /\ later = NoLaterCall
    /\ app = "rest"
    /\ fs = <<>>
    /\ req = [r \in Requests |-> NoRequest]
    /\ reply = <<>>
    /\ parsed = NotCalled
    /\ parsed_fenced = NotCalled

\* combined_json = combine_json_outputs(json_outputs)
HeapCombineCall ==
    /\ mem.result = NotCalled
    /\ LET call == heap_combine(mem.cells, mem.json_outputs)
       IN mem' = [mem EXCEPT
                    !.cells = call.cells,
                    !.result = call.result,
                    !.input_at_return = deref(call.cells, Ref(mem.json_outputs)),
                    !.output_at_return = deref(call.cells, call.result.value)]
    /\ UNCHANGED <<batch_vars, combine_vars, handler_vars, parse_vars>>

\* the call returned and the caller has changed nothing since
Untouched == mem.result.raised = "no" /\ mem.changed = "none"

\* the items list of the returned record, and of the input record i
ReturnedItems == mem.cells[mem.result.value.a].d.items.a
InputRecord(i) == mem.cells[mem.json_outputs].l[i].a
InputRecords == 1..Len(mem.cells[mem.json_outputs].l)
HasItemsList(i) == get(mem.cells[InputRecord(i)], "items").t = "ref"

\* combined_json["items"].append({...})
AppendToReturnedItems ==
    /\ Untouched
    /\ mem' = [mem EXCEPT
                 !.cells = list_extend(Append(mem.cells, ItemDict("bag", 100)),
                                       ReturnedItems, <<Ref(Len(mem.cells) + 1)>>),
                 !.changed = "returned items list"]
    /\ UNCHANGED <<batch_vars, combine_vars, handler_vars, parse_vars>>

\* combined_json["items"][k]["price"] = 0
ChangeReturnedItem ==
    /\ Untouched
    /\ \E k \in 1..Len(mem.cells[ReturnedItems].l) :
          mem' = [mem EXCEPT
                    !.cells = dict_setitem(mem.cells, mem.cells[ReturnedItems].l[k].a,
                                           "price", PyInt(0)),
                    !.changed = "returned item"]
    /\ UNCHANGED <<batch_vars, combine_vars, handler_vars, parse_vars>>

\* json_outputs[i]["date"] = "2024-05-01"
ChangeInputDate ==
    /\ Untouched
    /\ \E i \in InputRecords :
          mem' = [mem EXCEPT
                    !.cells = dict_setitem(mem.cells, InputRecord(i), "date",
                                           PyStr("2024-05-01")),
                    !.changed = "input date"]
    /\ UNCHANGED <<batch_vars, combine_vars, handler_vars, parse_vars>>

\* json_outputs[i]["items"].append({...})
AppendToInputItems ==
    /\ Untouched
    /\ \E i \in {j \in InputRecords : HasItemsList(j)} :
          mem' = [mem EXCEPT
                    !.cells = list_extend(Append(mem.cells, ItemDict("bag", 100)),
                                          mem.cells[InputRecord(i)].d.items.a,
                                          <<Ref(Len(mem.cells) + 1)>>),
                    !.changed = "input items list"]
    /\ UNCHANGED <<batch_vars, combine_vars, handler_vars, parse_vars>>

\* json_outputs[i]["items"][k]["price"] = 0
ChangeInputItem ==
    /\ Untouched
    /\ \E i \in {j \in InputRecords : HasItemsList(j)} :
          \E k \in 1..Len(mem.cells[mem.cells[InputRecord(i)].d.items.a].l) :
              mem' = [mem EXCEPT
                        !.cells = dict_setitem(
                                      mem.cells,
                                      mem.cells[mem.cells[InputRecord(i)].d.items.a].l[k].a,
                                      "price", PyInt(0)),
                        !.changed = "input item"]
    /\ UNCHANGED <<batch_vars, combine_vars, handler_vars, parse_vars>>

NextHeap ==
    \/ HeapCombineCall
    \/ AppendToReturnedItems
    \/ ChangeReturnedItem
    \/ ChangeInputDate
    \/ AppendToInputItems
    \/ ChangeInputItem

SpecHeap == InitHeap /\ [][NextHeap]_vars

(***************************************************************************)
(* Properties of combine_json_outputs on objects (checked under SpecHeap)  *)
(***************************************************************************)
\* the object model and the value model of combine_json_outputs agree: the
\* content of the result is what combine_json_outputs returns on the
\* content of the argument
HeapAgreesWithValues ==
    mem.result # NotCalled
        => LET by_value == combine_json_outputs(mem.before.l)
           IN /\ by_value.raised = mem.result.raised
              /\ mem.result.raised = "no" => mem.output_at_return = by_value.value

\* C28: combine_json_outputs leaves its input unchanged: after the call the
\* input list has the same length and order, and every input record has the
\* same fields and the same items sequence as before the call.
C28_InputUnchanged ==
    mem.result # NotCalled
        => /\ mem.input_at_return = mem.before
           /\ mem.changed = "none"
                 => SubSeq(mem.cells, 1, mem.json_outputs) = mem.before_cells

\* two records with items were combined into a record of three items and
\* still hold one and two items
C28_Witness ==
    /\ mem.result.raised = "no"
    /\ mem.changed = "none"
    /\ mem.before =
          PyList(<<PyDict([date |-> None,
                           items |-> PyList(<<ItemDict("milk", 2000)>>)]),
                   PyDict([date |-> PyStr("2024-04-25"),
                           items |-> PyList(<<ItemDict("bread", 1500),
                                              ItemDict("milk", 2000)>>)])>>)
    /\ Len(mem.output_at_return.d.items.l) = 3
    /\ deref(mem.cells, Ref(mem.json_outputs)) = mem.before

\* C22: the record combine_json_outputs returns holds no reference to its
\* input: a change of the returned items list, or of an item in it, changes
\* no input record, and a change of an input record does not change the
\* returned record.
C22_NoReferencesToInput ==
    /\ mem.changed \in {"returned items list", "returned item"}
          => deref(mem.cells, Ref(mem.json_outputs)) = mem.input_at_return
    /\ mem.changed \in {"input date", "input items list", "input item"}
          => deref(mem.cells, mem.result.value) = mem.output_at_return

(***************************************************************************)
(* The one fence pattern (checked under SpecParse)                         *)
(***************************************************************************)
\* the text begins with the fence and the tag json and its last token is
\* the fence
JsonFenced(text) ==
    /\ Len(text) >= 3
    /\ text[1] = Fence
    /\ text[2] = Tag("json")
    /\ text[Len(text)] = Fence

HasFence(text) == \E i \in 1..Len(text) : text[i] = Fence

\* C23: fence stripping is applied only when the raw reply starts with the
\* json-tagged opening fence and ends with the closing fence; every other
\* reply reaches the JSON parser unchanged, and if it carries a fence
\* (followed by trailing whitespace or a newline, preceded by whitespace,
\* tagged otherwise or not tagged) the parse fails and gives no record.
C23_OnlyOneFencePattern ==
    parsed # NotCalled
        => /\ JsonFenced(reply)
                 => /\ strip_fence(reply) = strip(SubSeq(reply, 3, Len(reply) - 1))
                    /\ parsed = json_loads(strip(SubSeq(reply, 3, Len(reply) - 1)))
           /\ ~JsonFenced(reply)
                 => /\ strip_fence(reply) = reply
                    /\ parsed = json_loads(reply)
           /\ (~JsonFenced(reply) /\ HasFence(reply))
                 => parsed = Raised("JSONDecodeError")

\* a json-fenced object followed by a newline gave a parse failure
C23_Witness ==
    /\ reply = <<Fence, Tag("json"), NL, Doc(R1), Fence, NL>>
    /\ parsed = Raised("JSONDecodeError")

(***************************************************************************)
(* Rejected downloads of the REST adapter                                  *)
(***************************************************************************)
\* the handler of request r raised HTTPException(400) for a download
Rejected(r) == req[r].rejected # NoDownload

C25_RecordOrError ==
    \A r \in Requests :
        (app = "grpc" /\ req[r].rpc = "ProcessReceipts" /\ req[r].pc = "done")
            => /\ req[r].response.json_output # <<>> <=> AllSucceeded(r)
               /\ req[r].response.json_output # <<>>
                     => /\ req[r].response.code = "OK"
                        /\ req[r].response.detail = <<>>
                        /\ req[r].response.json_output
                              = json_dumps(combine_json_outputs_gRPC(RepliedRecords(r)).value)
               /\ req[r].response.json_output = <<>>
                     => /\ req[r].response.code = "INTERNAL"
                        /\ req[r].response.detail # <<>>

\* C26: the gRPC service answers a single-image ProcessReceipt request with
\* a response whose json_output parses as JSON.
C26_SingleReceiptAnswered ==
    \A r \in Requests :
        (req[r].rpc = "ProcessReceipt" /\ req[r].pc = "done")
            => json_loads(req[r].response.json_output).raised = "no"

(***************************************************************************)
(* The image argument of the model call                                    *)
(***************************************************************************)
\* C27: in every adapter the image argument passed to MultiModal.invoke is
\* a local temp file path and never a string that starts with http:// or
\* https://, so encode_image never takes its URL-download branch while a
\* request is served.
C27_NeverRemoteArgument ==
    \A r \in Requests :
        /\ Len(req[r].encoders) = Cardinality(Invocations(r))
        /\ \A k \in 1..Len(req[r].encoders) :
              req[r].encoders[k] = "encode_image_from_file"
        /\ InProcessImage(r)
              => /\ req[r].temp_file_path[1] = "temp_"
                 /\ invoke_argument(req[r].temp_file_path) = req[r].temp_file_path

\* a REST request, whose images are given as URLs, had the model invoked on
\* two temp files
C27_Witness ==
    \E r \in Requests :
        /\ app = "rest"
        /\ req[r].downloads = 2
        /\ req[r].encoders = <<"encode_image_from_file", "encode_image_from_file">>

(***************************************************************************)
(* SpecBatch: MultiModal.batch applied to every bounded argument list.  An *)
(* omitted prompt list is the default [], the empty list.                  *)
(***************************************************************************)
MaxBatch == 2

ImagePaths == {"a.jpg", "b.png"}
Prompts == {"extract the receipt", "answer in JSON"}

\* MultiModal.create_messages: a system message and a user message that
\* carries the prompt and the encoded image
create_messages(image_url, system_prompt, user_prompt) ==
    <<[role |-> "system", content |-> system_prompt, image |-> ""],
      [role |-> "user", content |-> user_prompt, image |-> image_url]>>

\* zip(image_urls, system_prompts, user_prompts) stops with its shortest
\* argument; one message list is built per triple
zipped_messages(image_urls, system_prompts, user_prompts) ==
    [i \in 1..Min({Len(image_urls), Len(system_prompts), Len(user_prompts)}) |->
        create_messages(image_urls[i], system_prompts[i], user_prompts[i])]

\* self.model.batch(messages): one response per message list;
\* [r.content for r in response]
model_batch_contents(messages) ==
    [i \in 1..Len(messages) |-> <<Word("reply for "), Word(messages[i][2].image)>>]

InitBatch ==
    /\ \E image_urls \in SeqsUpTo(ImagePaths, MaxBatch),
          system_prompts \in SeqsUpTo(Prompts, MaxBatch),
          user_prompts \in SeqsUpTo(Prompts, MaxBatch) :
          batched = [NoBatch EXCEPT !.image_urls = image_urls,
                                    !.system_prompts = system_prompts,
                                    !.user_prompts = user_prompts]
    /\ mem = NoMemory
    /\ records = <<>>
    /\ combined = NotCalled
    /\ later = NoLaterCall
    /\ app = "rest"
    /\ fs = <<>>
    /\ req = [r \in Requests |-> NoRequest]
    /\ reply = <<>>
    /\ parsed = NotCalled
    /\ parsed_fenced = NotCalled

\* MultiModal.batch(image_urls, system_prompts, user_prompts)
Batch ==
    /\ ~batched.called
    /\ LET messages == zipped_messages(batched.image_urls, batched.system_prompts,
                                       batched.user_prompts)
       IN batched' = [batched EXCEPT !.called = TRUE,
                                     !.messages = messages,
                                     !.contents = model_batch_contents(messages)]
    /\ UNCHANGED <<heap_vars, combine_vars, handler_vars, parse_vars>>

NextBatch == Batch

SpecBatch == InitBatch /\ [][NextBatch]_vars

\* C29: MultiModal.batch sends the model one message list per image: the
\* number of message lists passed to model.batch, and the number of contents
\* returned, equals the number of image URLs given, also when the prompt
\* lists are omitted or shorter than image_urls.
C29_OneMessagePerImage ==
    batched.called
        => /\ Len(batched.messages) = Len(batched.image_urls)
           /\ Len(batched.contents) = Len(batched.image_urls)

(***************************************************************************)
(* The temp file of the file-upload adapter                                *)
(***************************************************************************)
\* C30: in the file-upload adapter the temp file of an image exists with
\* that image's bytes for the whole model invocation that reads it, and is
\* removed before the reply is parsed: a parse failure leaves no temp file,
\* and a failed model invocation is the only path that leaves one.
C30_UploadTempFile ==
    app = "upload"
        => /\ \A r \in Requests :
                 req[r].pc = "blocking"
                     => /\ req[r].temp_file_path \in DOMAIN fs
                        /\ fs[req[r].temp_file_path] = image_data(r, req[r].idx)
           /\ \A p \in DOMAIN fs :
                 \E r \in Requests :
                     /\ req[r].temp_file_path = p
                     /\ req[r].pc = "blocking" \/ ModelFailed(r)
           /\ \A r \in Requests :
                 (ParseFailed(r) /\ req[r].temp_file_path \in DOMAIN fs)
                     => \E o \in Requests \ {r} :
                           /\ req[o].temp_file_path = req[r].temp_file_path
                           /\ req[o].pc = "blocking" \/ ModelFailed(o)

\* one upload ended in a parse failure and left no file; the other ended in
\* a failure of the model call and left its file
C30_Witness ==
    \E r, o \in Requests :
        /\ app = "upload"
        /\ ParseFailed(r)
        /\ req[r].temp_file_path \notin DOMAIN fs
        /\ ModelFailed(o)
        /\ req[o].temp_file_path \in DOMAIN fs
        /\ fs[req[o].temp_file_path] = image_data(o, req[o].idx)

====
